---- MODULE Spec2Model ----
(***************************************************************************)
(* Seat ledger of the Soldier Carpool API (src/main.py).                   *)
(*                                                                         *)
(* The store holds three collections.  A document's id is its position in  *)
(* the collection (documents are inserted and never deleted), so a         *)
(* collection is a sequence and find_one by id is an index lookup.         *)
(* Each action is one complete HTTP handler, run without interleaving.     *)
(***************************************************************************)
EXTENDS Integers, Sequences, FiniteSets, TLC

VARIABLES
    soldier,      \* db["soldier"]: sequence of soldier documents
    ride,         \* db["ride"]: sequence of [seats_total, seats_available]
    riderequest,  \* db["riderequest"]: sequence of [ride_id, seats, status]
    deducted,     \* history: per request, net seats taken from its ride by $inc
    last,         \* history: the last completed call, its response code and the store before it
    calls,        \* update_request_status calls in progress, one per worker, store operation by store operation
    begun         \* number of calls the workers have taken

vars == <<soldier, ride, riderequest, deducted, last, calls, begun>>

\* Largest number of documents the store holds, all collections together.
MaxDocs == 4

\* Largest number of update_request_status calls the workers take in one run.
MaxCalls == 3

\* The workers that serve update_request_status calls at the same time: two,
\* the number of concurrent calls the ledger's races need.
Workers == {1, 2}

\* status values offered to the interleaved calls (line 190 treats cancelled as rejected).
ConcStatusInputs == {"pending", "accepted", "rejected"}

\* seats_total values offered to create_ride (RideIn.seats_total is an unconstrained int).
SeatsTotalInputs == {0, 4}

\* seats values offered to create_ride_request (RideRequestIn.seats is an unconstrained int).
SeatsInputs == {0, 2, 3}

\* status values offered to update_request_status (UpdateRequestStatus.status is any str).
StatusInputs == {"pending", "accepted", "rejected", "cancelled", "bogus"}

\* The set literal of line 171.
AllowedStatus == {"pending", "accepted", "rejected", "cancelled"}

\* Ids offered for a lookup in a collection: a malformed one (0), every stored
\* one and a well-formed one that names nothing.
IdInputs(coll) == 0 .. (Len(coll) + 1)

\* ObjectId.is_valid
ObjectIdIsValid(id) == id >= 1

\* db[coll].find_one({"_id": ObjectId(id)}) returns a document
Found(coll, id) == id \in 1 .. Len(coll)

\* create_document(coll, data): the document is appended and its id returned
create_document(coll, data) == Append(coll, data)

Docs == Len(soldier) + Len(ride) + Len(riderequest)

NoArgs ==
    [driver_id |-> 0, seats_total |-> 0, ride_id |-> 0, passenger_id |-> 0,
     seats |-> 0, request_id |-> 0, status |-> ""]

\* The call before this one accepted request request_id, which was not accepted
AfterAcceptOf(request_id) ==
    /\ last.op = "update_request_status"
    /\ last.code = 200
    /\ last.args.request_id = request_id
    /\ last.args.status = "accepted"
    /\ last.riderequest[request_id].status # "accepted"

\* The record of a completed call: operation, arguments, HTTP status code and
\* the ride and riderequest collections as they were when the call started;
\* after_accept tells that the call before it accepted the request this call
\* names, and before_accept is what that request's ride had left before that.
Call(op, args, code) ==
    LET after == op = "update_request_status" /\ AfterAcceptOf(args.request_id)
    IN  [op |-> op, args |-> args, code |-> code, ride |-> ride, riderequest |-> riderequest,
         after_accept |-> after,
         before_accept |-> IF after
                           THEN last.ride[last.riderequest[args.request_id].ride_id].seats_available
                           ELSE 0]

\* The snapshot a call holds before it has read its request
NoReq == [ride_id |-> 0, seats |-> 0, status |-> ""]

\* A worker that serves no call
Idle ==
    [pc |-> "idle", request_id |-> 0, status |-> "", req |-> NoReq,
     applied |-> 0, inc_done |-> FALSE]

Init ==
    /\ calls = [c \in Workers |-> Idle]
    /\ begun = 0
    /\ soldier = <<>>
    /\ ride = <<>>
    /\ riderequest = <<>>
    /\ deducted = <<>>
    /\ last = [op |-> "none", args |-> NoArgs, code |-> 0, ride |-> <<>>, riderequest |-> <<>>,
               after_accept |-> FALSE, before_accept |-> 0]

\* POST /soldiers
create_soldier ==
    /\ Docs < MaxDocs
    /\ soldier' = create_document(soldier, [verified |-> FALSE])
    /\ last' = Call("create_soldier", NoArgs, 200)
    /\ UNCHANGED <<ride, riderequest, deducted, calls, begun>>

\* The response code of POST /rides
create_ride_code(driver_id) ==
    IF ~ObjectIdIsValid(driver_id) THEN 400
    ELSE IF ~Found(soldier, driver_id) THEN 404
    ELSE 200

\* POST /rides
create_ride(driver_id, seats_total) ==
    LET code == create_ride_code(driver_id)
        args == [NoArgs EXCEPT !.driver_id = driver_id, !.seats_total = seats_total]
    IN  /\ code = 200 => Docs < MaxDocs
        /\ last' = Call("create_ride", args, code)
        /\ ride' = IF code = 200
                   THEN create_document(ride, [seats_total |-> seats_total,
                                               seats_available |-> seats_total])
                   ELSE ride
        /\ UNCHANGED <<soldier, riderequest, deducted, calls, begun>>

\* A wrong variant of create_ride_request_code: availability is not checked.
create_ride_request_code_nocheck(ride_id, passenger_id, seats) ==
    IF ~ObjectIdIsValid(ride_id) \/ ~ObjectIdIsValid(passenger_id) THEN 400
    ELSE IF ~Found(ride, ride_id) THEN 404
    ELSE IF ~Found(soldier, passenger_id) THEN 404
    ELSE IF seats < 1 THEN 400
    ELSE 200

\* The response code of POST /ride-requests (the checks of lines 145-156, in order)
create_ride_request_code(ride_id, passenger_id, seats) ==
    IF ~ObjectIdIsValid(ride_id) \/ ~ObjectIdIsValid(passenger_id) THEN 400
    ELSE IF ~Found(ride, ride_id) THEN 404
    ELSE IF ~Found(soldier, passenger_id) THEN 404
    ELSE IF seats < 1 THEN 400
    ELSE IF ride[ride_id].seats_available < seats THEN 400
    ELSE 200

\* A wrong variant of NewRequest: the request is stored as already accepted.
NewRequest_accepted(ride_id, seats) ==
    [ride_id |-> ride_id, seats |-> seats, status |-> "accepted"]

\* Lines 158-159: the document stored for a new request
NewRequest(ride_id, seats) ==
    [ride_id |-> ride_id, seats |-> seats, status |-> "pending"]

\* POST /ride-requests
create_ride_request(ride_id, passenger_id, seats) ==
    LET code == create_ride_request_code(ride_id, passenger_id, seats)
        args == [NoArgs EXCEPT !.ride_id = ride_id, !.passenger_id = passenger_id,
                               !.seats = seats]
    IN  /\ code = 200 => Docs < MaxDocs
        /\ last' = Call("create_ride_request", args, code)
        /\ riderequest' = IF code = 200
                          THEN create_document(riderequest, NewRequest(ride_id, seats))
                          ELSE riderequest
        /\ deducted' = IF code = 200 THEN Append(deducted, 0) ELSE deducted
        /\ UNCHANGED <<soldier, ride, calls, begun>>

\* A wrong variant of Accepting: the stored status is not looked at.
Accepting_always(old_status, new_status) ==
    new_status = "accepted"

\* Line 181: the call reserves seats
Accepting(old_status, new_status) ==
    old_status # "accepted" /\ new_status = "accepted"

\* A wrong variant of Releasing: a cancellation returns nothing.
Releasing_rejected_only(old_status, new_status) ==
    old_status = "accepted" /\ new_status = "rejected"

\* A wrong variant of Releasing: the stored status is not looked at.
Releasing_any(old_status, new_status) ==
    new_status \in {"rejected", "cancelled"}

\* Line 190: the call returns seats
Releasing(old_status, new_status) ==
    old_status = "accepted" /\ new_status \in {"rejected", "cancelled"}

\* A wrong variant of SeatsInc: an acceptance takes one seat whatever the request asks.
SeatsInc_one(req, new_status) ==
    (IF Accepting(req.status, new_status) THEN -1 ELSE 0)
    + (IF Releasing(req.status, new_status) THEN req.seats ELSE 0)

\* A wrong variant of SeatsInc: seats are returned whenever the new status is a release.
SeatsInc_release_any(req, new_status) ==
    (IF Accepting(req.status, new_status) THEN -req.seats ELSE 0)
    + (IF new_status \in {"rejected", "cancelled"} THEN req.seats ELSE 0)

\* The amount the handler adds to the ride's seats_available (lines 187 and 191)
SeatsInc(req, new_status) ==
    (IF Accepting(req.status, new_status) THEN -req.seats ELSE 0)
    + (IF Releasing(req.status, new_status) THEN req.seats ELSE 0)

\* A variant of IncSeatsAvailable that the code does not use: a conditional
\* update, which moves the seats only when none would be missing afterwards.
IncSeatsAvailable_guarded(coll, id, delta) ==
    IF Found(coll, id) /\ coll[id].seats_available + delta >= 0
    THEN [coll EXCEPT ![id].seats_available = @ + delta]
    ELSE coll

\* db["ride"].update_one({"_id": id}, {"$inc": {"seats_available": delta}}):
\* no document is changed when the id names none
IncSeatsAvailable(coll, id, delta) ==
    IF Found(coll, id)
    THEN [coll EXCEPT ![id].seats_available = @ + delta]
    ELSE coll

\* db["riderequest"].update_one({"_id": id}, {"$set": {"status": status}})
SetStatusField(coll, id, status) ==
    IF Found(coll, id)
    THEN [coll EXCEPT ![id].status = status]
    ELSE coll

\* A wrong variant of update_request_status_code: any status string is let through.
update_request_status_code_anystatus(request_id, status) ==
    IF ~ObjectIdIsValid(request_id) THEN 400
    ELSE IF ~Found(riderequest, request_id) THEN 404
    ELSE LET req == riderequest[request_id]
         IN  IF Accepting(req.status, status)
             THEN IF ~Found(ride, req.ride_id) THEN 404
                  ELSE IF ride[req.ride_id].seats_available < req.seats THEN 400
                  ELSE 200
             ELSE 200

\* A wrong variant of update_request_status_code: the acceptance is checked against
\* the ride's capacity, not against what is left of it.
update_request_status_code_stale(request_id, status) ==
    IF status \notin AllowedStatus THEN 400
    ELSE IF ~ObjectIdIsValid(request_id) THEN 400
    ELSE IF ~Found(riderequest, request_id) THEN 404
    ELSE LET req == riderequest[request_id]
         IN  IF Accepting(req.status, status)
             THEN IF ~Found(ride, req.ride_id) THEN 404
                  ELSE IF ride[req.ride_id].seats_total < req.seats THEN 400
                  ELSE 200
             ELSE 200

\* The response code of POST /ride-requests/{request_id}/status (lines 171-186, in order)
update_request_status_code(request_id, status) ==
    IF status \notin AllowedStatus THEN 400
    ELSE IF ~ObjectIdIsValid(request_id) THEN 400
    ELSE IF ~Found(riderequest, request_id) THEN 404
    ELSE LET req == riderequest[request_id]
         IN  IF Accepting(req.status, status)
             THEN IF ~Found(ride, req.ride_id) THEN 404
                  ELSE IF ride[req.ride_id].seats_available < req.seats THEN 400
                  ELSE 200
             ELSE 200

\* POST /ride-requests/{request_id}/status
update_request_status(request_id, status) ==
    LET code == update_request_status_code(request_id, status)
        args == [NoArgs EXCEPT !.request_id = request_id, !.status = status]
    IN  /\ last' = Call("update_request_status", args, code)
        /\ IF code = 200
           THEN LET req == riderequest[request_id]
                    inc == SeatsInc(req, status)
                IN  /\ ride' = IncSeatsAvailable(ride, req.ride_id, inc)
                    /\ deducted' = [deducted EXCEPT ![request_id] =
                                        IF Found(ride, req.ride_id) THEN @ - inc ELSE @]
                    /\ riderequest' = SetStatusField(riderequest, request_id, status)
           ELSE UNCHANGED <<ride, riderequest, deducted>>
        /\ UNCHANGED <<soldier, calls, begun>>

Next ==
    \/ create_soldier
    \/ \E d \in IdInputs(soldier), t \in SeatsTotalInputs : create_ride(d, t)
    \/ \E r \in IdInputs(ride), p \in IdInputs(soldier), n \in SeatsInputs :
           create_ride_request(r, p, n)
    \/ \E q \in IdInputs(riderequest), s \in StatusInputs : update_request_status(q, s)

Spec == Init /\ [][Next]_vars

\* seats_total and seats values at and past the upper ends the schemas declare
\* (schemas.Ride.seats_total le=8, schemas.RideRequest.seats le=4).
SeatsTotalInputsWide == {8}

SeatsInputsWide == {4, 5}

\* The same handlers, called with the values of the upper ends
NextWide ==
    \/ create_soldier
    \/ \E d \in IdInputs(soldier), t \in SeatsTotalInputsWide : create_ride(d, t)
    \/ \E r \in IdInputs(ride), p \in IdInputs(soldier), n \in SeatsInputsWide :
           create_ride_request(r, p, n)
    \/ \E q \in IdInputs(riderequest), s \in StatusInputs : update_request_status(q, s)

SpecWide == Init /\ [][NextWide]_vars

(***************************************************************************)
(* update_request_status, store operation by store operation.  Each worker *)
(* runs one call; the steps of different workers interleave.  The store    *)
(* the calls start from holds one soldier and rides and pending requests   *)
(* as create_ride and create_ride_request leave them.                      *)
(***************************************************************************)

\* The stores reached by create_soldier, create_ride and create_ride_request
\* calls alone: every ride still has all its seats, every request is pending.
CreatedRides ==
    UNION { [1 .. n -> { [seats_total |-> t, seats_available |-> t] :
                             t \in SeatsTotalInputs \ {0} }] : n \in 1 .. 2 }

CreatedRequests(rides) ==
    UNION { [1 .. n -> { NewRequest(r, k) :
                             r \in 1 .. Len(rides), k \in SeatsInputs \ {0} }] : n \in 1 .. 3 }

InitConc ==
    /\ soldier = <<[verified |-> FALSE]>>
    /\ ride \in CreatedRides
    /\ riderequest \in CreatedRequests(ride)
    /\ Docs <= MaxDocs
    /\ \A q \in 1 .. Len(riderequest) :
           riderequest[q].seats <= ride[riderequest[q].ride_id].seats_available
    /\ deducted = [q \in 1 .. Len(riderequest) |-> 0]
    /\ calls = [c \in Workers |-> Idle]
    /\ begun = 0
    /\ last = [op |-> "none", args |-> NoArgs, code |-> 0, ride |-> <<>>, riderequest |-> <<>>,
               after_accept |-> FALSE, before_accept |-> 0]

\* A wrong variant of NextStep: the status is written before the seats are moved.
NextStep_status_first(pc) ==
    CASE pc = "find_request" -> "find_ride"
      [] pc = "find_ride" -> "set_status"
      [] pc = "set_status" -> "inc_seats"
      [] pc = "inc_seats" -> "idle"

\* The order of the store operations in update_request_status: lines 176,
\* 182, 187/191 and 193 (the read of line 194 changes nothing and ends the call)
NextStep(pc) ==
    CASE pc = "find_request" -> "find_ride"
      [] pc = "find_ride" -> "inc_seats"
      [] pc = "inc_seats" -> "set_status"
      [] pc = "set_status" -> "idle"

\* Lines 171-174: a worker takes a call whose status and id are well formed
\* (any other call is answered 400 before the store is touched)
begin(c, request_id, status) ==
    /\ calls[c].pc = "idle"
    /\ begun < MaxCalls
    /\ begun' = begun + 1
    /\ status \in AllowedStatus
    /\ ObjectIdIsValid(request_id)
    /\ calls' = [calls EXCEPT ![c] =
                     [Idle EXCEPT !.pc = "find_request", !.request_id = request_id,
                                  !.status = status]]
    /\ UNCHANGED <<soldier, ride, riderequest, deducted, last>>

\* Lines 176-178: the request is read; 404 ends the call
find_request(c) ==
    /\ calls[c].pc = "find_request"
    /\ calls' = [calls EXCEPT ![c] =
                     IF Found(riderequest, calls[c].request_id)
                     THEN [@ EXCEPT !.pc = NextStep("find_request"),
                                    !.req = riderequest[calls[c].request_id]]
                     ELSE Idle]
    /\ UNCHANGED <<soldier, ride, riderequest, deducted, last, begun>>

\* Lines 181-186: for an acceptance the ride is read and checked; 404 or 400
\* ends the call
find_ride(c) ==
    LET call == calls[c]
        refused == /\ Accepting(call.req.status, call.status)
                   /\ \/ ~Found(ride, call.req.ride_id)
                      \/ ride[call.req.ride_id].seats_available < call.req.seats
    IN  /\ call.pc = "find_ride"
        /\ calls' = [calls EXCEPT ![c] =
                         IF refused THEN Idle ELSE [@ EXCEPT !.pc = NextStep("find_ride")]]
        /\ UNCHANGED <<soldier, ride, riderequest, deducted, last, begun>>

\* A call that has run its last store operation leaves its worker
Advance(call, pc) ==
    IF NextStep(pc) = "idle" THEN Idle ELSE [call EXCEPT !.pc = NextStep(pc)]

\* Lines 187 and 191: the atomic $inc on the ride, when the call accepts or releases
inc_seats(c) ==
    LET call == calls[c]
        i == call.req.ride_id
        new_ride == IncSeatsAvailable(ride, i, SeatsInc(call.req, call.status))
        change == IF Found(ride, i)
                  THEN new_ride[i].seats_available - ride[i].seats_available
                  ELSE 0
    IN  /\ call.pc = "inc_seats"
        /\ ride' = new_ride
        /\ deducted' = [deducted EXCEPT ![call.request_id] = @ - change]
        /\ calls' = [calls EXCEPT ![c] =
                         Advance([call EXCEPT !.applied = change, !.inc_done = TRUE],
                                 "inc_seats")]
        /\ UNCHANGED <<soldier, riderequest, last, begun>>

\* Lines 193-195: the status is written, the request read again and returned
set_status(c) ==
    LET call == calls[c]
    IN  /\ call.pc = "set_status"
        /\ riderequest' = SetStatusField(riderequest, call.request_id, call.status)
        /\ calls' = [calls EXCEPT ![c] = Advance(call, "set_status")]
        /\ UNCHANGED <<soldier, ride, deducted, last, begun>>

\* The process serving a call stops between two store operations
crash(c) ==
    /\ calls[c].pc \notin {"idle", "find_request"}
    /\ calls' = [calls EXCEPT ![c] = Idle]
    /\ UNCHANGED <<soldier, ride, riderequest, deducted, last, begun>>

NextConc ==
    \/ \E c \in Workers, q \in 1 .. Len(riderequest) + 1, s \in ConcStatusInputs :
           begin(c, q, s)
    \/ \E c \in Workers : find_request(c)
    \/ \E c \in Workers : find_ride(c)
    \/ \E c \in Workers : inc_seats(c)
    \/ \E c \in Workers : set_status(c)

SpecConc == InitConc /\ [][NextConc]_vars

NextCrash ==
    \/ NextConc
    \/ \E c \in Workers : crash(c)

SpecCrash == InitConc /\ [][NextCrash]_vars

(***************************************************************************)
(* suggest_rides.  Times are minutes, window_hours is hours; scores are    *)
(* kept in hundredths of a point and computed in three-hundredths, where   *)
(* every term is a whole number.  Areas are sequences of characters.       *)
(***************************************************************************)

\* Largest number of rides the store holds when rides are suggested.
MaxFetched == 51

\* Lines 222: the least and the greatest window, in hours
MinWindow == 1

MaxWindow == 168

\* Line 226: limit(200)
FetchLimit == 200

\* Line 259: scored[:50]
TopN == 50

Min(a, b) == IF a < b THEN a ELSE b

Max(a, b) == IF a > b THEN a ELSE b

\* str.lower() on one character, for the letters the areas below use
LowerChar(ch) ==
    CASE ch = "H" -> "h"
      [] ch = "T" -> "t"
      [] ch = "A" -> "a"
      [] ch = "N" -> "n"
      [] ch = "S" -> "s"
      [] ch = "E" -> "e"
      [] OTHER -> ch

\* str.lower()
Lower(str) == [k \in 1 .. Len(str) |-> LowerChar(str[k])]

\* a in b, for strings
Contains(a, b) ==
    \E k \in 0 .. (Len(b) - Len(a)) : SubSeq(b, k + 1, k + Len(a)) = a

Haifa == <<"H", "a", "i", "f", "a">>

TelAviv == <<"T", "e", "l", " ", "A", "v", "i", "v">>

NorthHaifa == <<"N", "o", "r", "t", "h", " ", "H", "a", "i", "f", "a">>

SouthTelAviv == <<"S", "o", "u", "t", "h", " ", "T", "e", "l", " ", "A", "v", "i", "v">>

Eilat == <<"E", "i", "l", "a", "t">>

HaifaUpper == <<"H", "A", "I", "F", "A">>

\* Ride documents the store is filled from: departure_time in minutes,
\* price_per_seat in whole units.
RideCatalog ==
    << [from_area |-> NorthHaifa, to_area |-> SouthTelAviv, departure_time |-> 60,
        seats_total |-> 4, seats_available |-> 4, price_per_seat |-> 0],
       [from_area |-> Eilat, to_area |-> SouthTelAviv, departure_time |-> 100,
        seats_total |-> 4, seats_available |-> 2, price_per_seat |-> 10],
       [from_area |-> HaifaUpper, to_area |-> Eilat, departure_time |-> 90,
        seats_total |-> 8, seats_available |-> 7, price_per_seat |-> 45],
       [from_area |-> Eilat, to_area |-> TelAviv, departure_time |-> 10080,
        seats_total |-> 4, seats_available |-> 1, price_per_seat |-> 0],
       [from_area |-> NorthHaifa, to_area |-> Eilat, departure_time |-> 400,
        seats_total |-> 4, seats_available |-> 3, price_per_seat |-> 20],
       [from_area |-> Eilat, to_area |-> TelAviv, departure_time |-> 10080,
        seats_total |-> 4, seats_available |-> 1, price_per_seat |-> 0],
       [from_area |-> NorthHaifa, to_area |-> SouthTelAviv, departure_time |-> 30,
        seats_total |-> 4, seats_available |-> 0, price_per_seat |-> 0],
       [from_area |-> <<>>, to_area |-> SouthTelAviv, departure_time |-> 10081,
        seats_total |-> 4, seats_available |-> 4, price_per_seat |-> 0] >>

\* The store with n rides: the k-th is taken from the catalog, step a from start b
RidesOf(n, a, b) ==
    [k \in 1 .. n |-> RideCatalog[((k * a + b) % Len(RideCatalog)) + 1]]

\* Soldier documents the store is filled from
SoldierCatalog ==
    { [verified |-> FALSE, home_area |-> Haifa, base_name |-> TelAviv],
      [verified |-> FALSE, home_area |-> <<>>, base_name |-> Eilat] }

\* window_hours, now and the catalog steps offered
WindowInputs == {-3, 0, 1, 2, 168, 169}

NowInputs == {0, 30}

FetchedInputs == {0, 2, MaxFetched - 1, MaxFetched}

StepInputs == {1, 4, 8}

InitScore ==
    /\ soldier \in { <<d>> : d \in SoldierCatalog }
    /\ ride \in { RidesOf(n, a, b) : n \in FetchedInputs, a \in StepInputs, b \in 0 .. 2 }
    /\ riderequest = <<>>
    /\ deducted = <<>>
    /\ calls = [c \in Workers |-> Idle]
    /\ begun = 0
    /\ last = [op |-> "none", args |-> NoArgs, code |-> 0, ride |-> <<>>, riderequest |-> <<>>,
               after_accept |-> FALSE, before_accept |-> 0]

\* A wrong variant of ClampWindow: the window is used as given.
ClampWindow_none(window_hours) == window_hours

\* Line 222: max(1, min(payload.window_hours, 168))
ClampWindow(window_hours) == Max(MinWindow, Min(window_hours, MaxWindow))

\* Line 225: the query of the upcoming rides with a free seat
InQuery(r, now, latest) ==
    /\ r.departure_time >= now
    /\ r.departure_time <= latest
    /\ r.seats_available > 0

\* The positions of the rides the query matches, in store order
RECURSIVE Matching(_, _, _, _)
Matching(rides, n, now, latest) ==
    IF n = 0 THEN <<>>
    ELSE Matching(rides, n - 1, now, latest)
         \o (IF InQuery(rides[n], now, latest) THEN <<n>> ELSE <<>>)

\* Line 226: find(query).limit(200)
Fetch(rides, now, latest) ==
    LET m == Matching(rides, Len(rides), now, latest)
    IN  SubSeq(m, 1, Min(Len(m), FetchLimit))

\* Lines 231-236: the two areas match when either contains the other, case
\* ignored, and neither is empty
AreaMatch(a, b) ==
    /\ a # <<>>
    /\ b # <<>>
    /\ \/ Contains(Lower(a), Lower(b))
       \/ Contains(Lower(b), Lower(a))

\* A wrong variant of Score300: the time term does not decay inside six hours.
Score300_no_decay(sol, r, now) ==
    LET delta == IF r.departure_time >= now THEN r.departure_time - now
                 ELSE now - r.departure_time
    IN  (IF AreaMatch(sol.home_area, r.from_area) THEN 1500 ELSE 0)
        + (IF AreaMatch(sol.base_name, r.to_area) THEN 1500 ELSE 0)
        + (IF 5 * delta < 1800 THEN 1800 ELSE 0)
        + Min(r.seats_available, 4) * 150
        + Max(0, 900 - Min(30 * r.price_per_seat, 900))

\* Lines 229-251, in three-hundredths of a point
Score300(sol, r, now) ==
    LET delta == IF r.departure_time >= now THEN r.departure_time - now
                 ELSE now - r.departure_time
    IN  (IF AreaMatch(sol.home_area, r.from_area) THEN 1500 ELSE 0)
        + (IF AreaMatch(sol.base_name, r.to_area) THEN 1500 ELSE 0)
        + Max(0, 1800 - Min(5 * delta, 1800))
        + Min(r.seats_available, 4) * 150
        + Max(0, 900 - Min(30 * r.price_per_seat, 900))

\* round(x, 2), from three-hundredths to hundredths (no value lies half way)
Round2(x300) == (x300 + 1) \div 3

\* Line 254: round(score_ride(r), 2)
score_ride(sol, r, now) == Round2(Score300(sol, r, now))

\* list.sort(key=score, reverse=True) puts an item behind every item that is
\* at least as good
RECURSIVE InsertByScore(_, _)
InsertByScore(sorted, x) ==
    IF sorted = <<>> THEN <<x>>
    ELSE IF Head(sorted).score >= x.score
         THEN <<Head(sorted)>> \o InsertByScore(Tail(sorted), x)
         ELSE <<x>> \o sorted

\* A wrong variant of SortByScore: sorted upwards and then turned round, which
\* turns round the rides of equal score too.
RECURSIVE SortByScore_reversed(_)
SortByScore_reversed(items) ==
    IF items = <<>> THEN <<>>
    ELSE InsertByScore(SortByScore_reversed(Tail(items)), Head(items))

\* Line 256: scored.sort(key=lambda x: x["score"], reverse=True), a stable sort
RECURSIVE SortByScore(_)
SortByScore(items) ==
    IF items = <<>> THEN <<>>
    ELSE InsertByScore(SortByScore(SubSeq(items, 1, Len(items) - 1)), items[Len(items)])

\* Lines 220-276: the suggestions for a stored soldier
Suggestions(sol, rides, now, window_hours) ==
    LET latest == now + ClampWindow(window_hours) * 60
        fetched == Fetch(rides, now, latest)
        scored == [k \in 1 .. Len(fetched) |->
                       [ride |-> fetched[k], score |-> score_ride(sol, rides[fetched[k]], now)]]
        sorted == SortByScore(scored)
    IN  SubSeq(sorted, 1, Min(Len(sorted), TopN))

\* The response code of POST /ai/suggest-rides (lines 214-218)
suggest_rides_code(soldier_id) ==
    IF ~ObjectIdIsValid(soldier_id) THEN 400
    ELSE IF ~Found(soldier, soldier_id) THEN 404
    ELSE 200

\* POST /ai/suggest-rides
suggest_rides(soldier_id, window_hours, now) ==
    LET code == suggest_rides_code(soldier_id)
    IN  /\ last' = [op |-> "suggest_rides", code |-> code,
                    args |-> [soldier_id |-> soldier_id, window_hours |-> window_hours,
                              now |-> now],
                    result |-> IF code = 200
                               THEN Suggestions(soldier[soldier_id], ride, now, window_hours)
                               ELSE <<>>]
        /\ UNCHANGED <<soldier, ride, riderequest, deducted, calls, begun>>

NextScore ==
    \E d \in IdInputs(soldier), w \in WindowInputs, t \in NowInputs : suggest_rides(d, w, t)

SpecScore == InitScore /\ [][NextScore]_vars

(***************************************************************************)
(* Properties of the seat ledger.  The last call is read from `last`: its  *)
(* arguments, its response code and the collections before it ran.         *)
(***************************************************************************)

\* The request the last update_request_status call named, as stored before the call
PreReq == last.riderequest[last.args.request_id]

\* The ride of that request, as stored before the call
PreReqRide == last.ride[PreReq.ride_id]

\* The last call was update_request_status on a stored request
StatusCallOnStored ==
    /\ last.op = "update_request_status"
    /\ Found(last.riderequest, last.args.request_id)

\* The seats of the first n requests that name ride i and are accepted, summed
RECURSIVE AcceptedSeats(_, _, _)
AcceptedSeats(reqs, i, n) ==
    IF n = 0 THEN 0
    ELSE AcceptedSeats(reqs, i, n - 1)
         + (IF reqs[n].ride_id = i /\ reqs[n].status = "accepted" THEN reqs[n].seats ELSE 0)

\* C1: after any sequence of completed create-ride, RequestSeats and SetStatus
\* calls, every ride created with seats_total in 1..8 has
\* 0 <= seats_available <= seats_total.
C1_SeatsWithinBounds ==
    \A i \in 1 .. Len(ride) :
        ride[i].seats_total \in 1 .. 8 =>
            /\ 0 <= ride[i].seats_available
            /\ ride[i].seats_available <= ride[i].seats_total

\* C1 witness: a ride in range was emptied by acceptances, and the last call
\* has returned seats to a ride in range.
C1_Witness ==
    /\ StatusCallOnStored
    /\ last.code = 200
    /\ Releasing(PreReq.status, last.args.status)
    /\ PreReqRide.seats_total \in 1 .. 8
    /\ PreReqRide.seats_available = 0
    /\ ride[PreReq.ride_id].seats_available > 0

\* C2 (as claimed): for every ride, seats_available equals seats_total minus the
\* seats of its requests that are currently accepted, whatever the order of
\* status changes.
C2_AvailableMatchesAccepted ==
    \A i \in 1 .. Len(ride) :
        ride[i].seats_available =
            ride[i].seats_total - AcceptedSeats(riderequest, i, Len(riderequest))

\* C3 (as claimed): the net number of seats taken from a ride on behalf of one
\* request never exceeds that request's seats.
C3_NetDeductionAtMostSeats ==
    \A q \in 1 .. Len(riderequest) : deducted[q] <= riderequest[q].seats

\* C4: accepting a request that is not accepted, whose ride exists and has
\* seats_available >= request.seats, succeeds, sets the status to accepted and
\* takes exactly request.seats from that ride; no other ride or request changes.
C4_AcceptReservesExactly ==
    ( /\ StatusCallOnStored
      /\ last.args.status = "accepted"
      /\ PreReq.status # "accepted"
      /\ Found(last.ride, PreReq.ride_id)
      /\ PreReqRide.seats_available >= PreReq.seats )
    =>
    ( /\ last.code = 200
      /\ riderequest = [last.riderequest EXCEPT ![last.args.request_id].status = "accepted"]
      /\ ride = [last.ride EXCEPT ![PreReq.ride_id].seats_available = @ - PreReq.seats] )

\* C4 witness: such an acceptance happened while another ride was stored.
C4_Witness ==
    /\ StatusCallOnStored
    /\ last.args.status = "accepted"
    /\ PreReq.status # "accepted"
    /\ PreReqRide.seats_available >= PreReq.seats
    /\ PreReq.seats >= 2
    /\ Len(ride) >= 2

\* C5: when a request is accepted and the very next call rejects or cancels
\* it, that call succeeds and the ride's seats_available is again what it was
\* before the acceptance.
C5_AcceptReleaseRoundTrip ==
    ( /\ StatusCallOnStored
      /\ last.after_accept
      /\ last.args.status \in {"rejected", "cancelled"} )
    =>
    ( /\ last.code = 200
      /\ ride[PreReq.ride_id].seats_available = last.before_accept )

\* C5 witness: an accepted 3-seat request on a 4-seat ride has just been released
\* and the ride has its 4 seats again, nothing being held for the request.
C5_Witness ==
    /\ StatusCallOnStored
    /\ last.after_accept
    /\ last.before_accept = 4
    /\ last.code = 200
    /\ PreReq.status = "accepted"
    /\ last.args.status \in {"rejected", "cancelled"}
    /\ PreReq.seats = 3
    /\ PreReqRide.seats_available = 1
    /\ ride[PreReq.ride_id].seats_available = 4
    /\ deducted[last.args.request_id] = 0

\* C6: accepting a request that is already accepted succeeds and changes
\* neither the status nor any ride, also when the ride has fewer seats left
\* than the request asks.
C6_ReacceptIsNoOp ==
    ( /\ StatusCallOnStored
      /\ last.args.status = "accepted"
      /\ PreReq.status = "accepted" )
    =>
    ( /\ last.code = 200
      /\ ride = last.ride
      /\ riderequest = last.riderequest )

\* C6 witness: an accepted request was accepted again while its ride had fewer
\* seats left than the request holds.
C6_Witness ==
    /\ StatusCallOnStored
    /\ last.args.status = "accepted"
    /\ PreReq.status = "accepted"
    /\ last.code = 200
    /\ PreReqRide.seats_available < PreReq.seats

\* C7: RequestSeats on a stored ride and a stored passenger answers 400 when
\* seats < 1 or seats > the ride's seats_available; no request is created and
\* no ride is changed.
C7_RequestSeatsRejected ==
    ( /\ last.op = "create_ride_request"
      /\ Found(last.ride, last.args.ride_id)
      /\ Found(soldier, last.args.passenger_id)
      /\ \/ last.args.seats < 1
         \/ last.args.seats > last.ride[last.args.ride_id].seats_available )
    =>
    ( /\ last.code = 400
      /\ riderequest = last.riderequest
      /\ ride = last.ride )

\* C7 witness: a request for at least one seat was refused because the ride,
\* partly taken, had fewer seats left.
C7_Witness ==
    /\ last.op = "create_ride_request"
    /\ Found(last.ride, last.args.ride_id)
    /\ Found(soldier, last.args.passenger_id)
    /\ last.args.seats >= 1
    /\ last.ride[last.args.ride_id].seats_available >= 1
    /\ last.args.seats > last.ride[last.args.ride_id].seats_available
    /\ last.code = 400

\* C8: a successful RequestSeats stores exactly one new request, pending, and
\* reserves nothing: every ride and every earlier request is unchanged.
C8_RequestSeatsReservesNothing ==
    ( /\ last.op = "create_ride_request"
      /\ last.code = 200 )
    =>
    ( /\ ride = last.ride
      /\ Len(riderequest) = Len(last.riderequest) + 1
      /\ SubSeq(riderequest, 1, Len(last.riderequest)) = last.riderequest
      /\ riderequest[Len(riderequest)] =
             [ride_id |-> last.args.ride_id, seats |-> last.args.seats, status |-> "pending"] )

\* C8 witness: a request was stored for a ride that already had a request.
C8_Witness ==
    /\ last.op = "create_ride_request"
    /\ last.code = 200
    /\ \E q \in 1 .. Len(last.riderequest) :
           last.riderequest[q].ride_id = last.args.ride_id

\* C9: SetStatus answers 400 for a status outside the four allowed ones,
\* whether or not the request exists, and 404 for an allowed status and a
\* well-formed id that names no request; in both cases nothing is changed.
C9_SetStatusErrors ==
    last.op = "update_request_status" =>
        /\ last.args.status \notin AllowedStatus =>
               /\ last.code = 400
               /\ ride = last.ride
               /\ riderequest = last.riderequest
        /\ ( /\ last.args.status \in AllowedStatus
             /\ ObjectIdIsValid(last.args.request_id)
             /\ ~Found(last.riderequest, last.args.request_id) ) =>
               /\ last.code = 404
               /\ ride = last.ride
               /\ riderequest = last.riderequest

\* C9 witness: a status outside the allowed ones was refused for a stored
\* request that holds seats.
C9_Witness ==
    /\ StatusCallOnStored
    /\ last.args.status \notin AllowedStatus
    /\ PreReq.status = "accepted"
    /\ last.code = 400

\* C9 second case reached: an allowed status for a well-formed id naming nothing.
C9_NotFoundReached ==
    /\ last.op = "update_request_status"
    /\ last.args.status \in AllowedStatus
    /\ ObjectIdIsValid(last.args.request_id)
    /\ ~Found(last.riderequest, last.args.request_id)
    /\ Len(last.riderequest) >= 1
    /\ last.code = 404

\* C10: accepting a request that is not accepted answers 404 when its ride is
\* not stored and 400 when the ride now has fewer seats left than the request
\* asks; the request's status and the ride are left as they were.
C10_AcceptRefused ==
    ( /\ StatusCallOnStored
      /\ last.args.status = "accepted"
      /\ PreReq.status # "accepted" )
    =>
    ( /\ ~Found(last.ride, PreReq.ride_id) =>
             /\ last.code = 404
             /\ ride = last.ride
             /\ riderequest = last.riderequest
      /\ ( /\ Found(last.ride, PreReq.ride_id)
           /\ PreReqRide.seats_available < PreReq.seats ) =>
             /\ last.code = 400
             /\ ride = last.ride
             /\ riderequest = last.riderequest )

\* C10 witness: an acceptance was refused for a request that fits the ride's
\* capacity but not what an earlier acceptance of another request left of it.
C10_Witness ==
    /\ StatusCallOnStored
    /\ last.args.status = "accepted"
    /\ PreReq.status = "pending"
    /\ PreReq.seats <= PreReqRide.seats_total
    /\ PreReqRide.seats_available < PreReq.seats
    /\ \E q \in 1 .. Len(last.riderequest) :
           /\ q # last.args.request_id
           /\ last.riderequest[q].ride_id = PreReq.ride_id
           /\ last.riderequest[q].status = "accepted"
    /\ last.code = 400

\* C11: a SetStatus call that takes a request from pending, rejected or
\* cancelled to pending, rejected or cancelled (the same status included)
\* succeeds and changes only that request's status; every ride and every
\* other request stays as it was.
C11_NonAcceptChangesOnlyStatus ==
    ( /\ StatusCallOnStored
      /\ PreReq.status \in {"pending", "rejected", "cancelled"}
      /\ last.args.status \in {"pending", "rejected", "cancelled"} )
    =>
    ( /\ last.code = 200
      /\ ride = last.ride
      /\ riderequest =
             [last.riderequest EXCEPT ![last.args.request_id].status = last.args.status] )

\* C11 witness: a pending request was rejected while its ride had seats taken
\* by another request.
C11_Witness ==
    /\ StatusCallOnStored
    /\ PreReq.status = "pending"
    /\ last.args.status = "rejected"
    /\ last.code = 200
    /\ PreReqRide.seats_available < PreReqRide.seats_total
    /\ riderequest[last.args.request_id].status = "rejected"

\* C14 (as claimed): every stored ride has 1 <= seats_total <= 8, so no ride
\* starts with seats_available outside 1..8.
C14_StoredRidesInRange ==
    \A i \in 1 .. Len(ride) : ride[i].seats_total \in 1 .. 8

\* C20: for every ride, the seats of its accepted requests plus its
\* seats_available never exceed seats_total.
C20_NoOverselling ==
    \A i \in 1 .. Len(ride) :
        AcceptedSeats(riderequest, i, Len(riderequest)) + ride[i].seats_available
            <= ride[i].seats_total

\* C20 witness: two accepted requests together hold all seats of a ride.
C20_Witness ==
    \E i \in 1 .. Len(ride) :
        /\ ride[i].seats_available = 0
        /\ AcceptedSeats(riderequest, i, Len(riderequest)) = ride[i].seats_total
        /\ \E q1, q2 \in 1 .. Len(riderequest) :
               /\ q1 # q2
               /\ riderequest[q1].ride_id = i /\ riderequest[q1].status = "accepted"
               /\ riderequest[q2].ride_id = i /\ riderequest[q2].status = "accepted"

\* C15 (as claimed): every stored request has 1 <= seats <= 4 and one of the
\* four statuses; a RequestSeats call with seats > 4 stores nothing.
C15_StoredRequestsInRange ==
    \A q \in 1 .. Len(riderequest) :
        /\ riderequest[q].seats \in 1 .. 4
        /\ riderequest[q].status \in AllowedStatus

\* C12: with two interleaved calls, every acceptance that has passed the check
\* of line 185 takes its seats from the ride whatever is left of them by then
\* (the $inc is not conditional), so two acceptances of the same ride can both
\* pass the check and together take more seats than the ride has.
C12_CheckedAcceptancesDecrement ==
    \A c \in Workers :
        ( /\ calls[c].inc_done
          /\ Accepting(calls[c].req.status, calls[c].status) )
        => calls[c].applied = - calls[c].req.seats

\* C12 witness: two calls accepting two different pending requests of one ride
\* have both passed the check and both decremented, and seats_available < 0.
C12_Witness ==
    \E c1, c2 \in Workers :
        /\ c1 # c2
        /\ calls[c1].inc_done /\ calls[c2].inc_done
        /\ calls[c1].status = "accepted" /\ calls[c2].status = "accepted"
        /\ calls[c1].req.status = "pending" /\ calls[c2].req.status = "pending"
        /\ calls[c1].request_id # calls[c2].request_id
        /\ calls[c1].req.ride_id = calls[c2].req.ride_id
        /\ ride[calls[c1].req.ride_id].seats_available < 0

\* C13 (as claimed): in every state of interleaved SetStatus calls, every ride
\* created with seats_total in 1..8 has seats_available <= seats_total.
C13_UpperHalfAtAllTimes ==
    \A i \in 1 .. Len(ride) :
        ride[i].seats_total \in 1 .. 8 => ride[i].seats_available <= ride[i].seats_total

\* C19: a call that is about to write the request's status has already moved
\* the seats its transition moves (taken them for an acceptance, returned them
\* for a release); the status is never written before the seats are moved,
\* also when calls interleave or a process stops between the two writes.
C19_SeatsMovedBeforeStatus ==
    \A c \in Workers :
        calls[c].pc = "set_status" =>
            /\ calls[c].inc_done
            /\ calls[c].applied = SeatsInc(calls[c].req, calls[c].status)

\* C19 witness: an acceptance stopped between its two writes (its seats are
\* taken, the status is still pending), and a second acceptance of the same
\* request has taken its seats and is about to write the status.
C19_Witness ==
    \E c \in Workers :
        /\ calls[c].pc = "set_status"
        /\ calls[c].status = "accepted"
        /\ calls[c].req.status = "pending"
        /\ calls[c].applied = - calls[c].req.seats
        /\ riderequest[calls[c].request_id].status = "pending"
        /\ deducted[calls[c].request_id] = 2 * calls[c].req.seats
        /\ \A d \in Workers \ {c} : calls[d].pc = "idle"

(***************************************************************************)
(* Properties of suggest_rides, read from the last call and its result.    *)
(***************************************************************************)

\* The last call was suggest_rides and it answered 200
Suggested == last.op = "suggest_rides" /\ last.code = 200

\* The soldier the last suggest_rides call named
SuggestedFor == soldier[last.args.soldier_id]

\* The window the claims state for a given window_hours
StatedWindow(w) == IF w < 1 THEN 1 ELSE IF w > 168 THEN 168 ELSE w

\* C16: window_hours is clamped to [1, 168]: any window_hours <= 1 gives the
\* result of window_hours = 1, any window_hours >= 168 gives the result of 168,
\* and every returned ride departs within [now, now + clamped window] and has
\* seats_available > 0.
C16_WindowClamped ==
    Suggested =>
        LET w == last.args.window_hours
            now == last.args.now
        IN  /\ w <= 1 => last.result = Suggestions(SuggestedFor, ride, now, 1)
            /\ w >= 168 => last.result = Suggestions(SuggestedFor, ride, now, 168)
            /\ \A k \in 1 .. Len(last.result) :
                   LET r == ride[last.result[k].ride]
                   IN  /\ r.departure_time >= now
                       /\ r.departure_time <= now + StatedWindow(w) * 60
                       /\ r.seats_available > 0

\* C16 witness: with window_hours = 0 a ride inside the first hour was
\* returned and a ride with a free seat that departs later was not.
C16_Witness ==
    /\ Suggested
    /\ last.args.window_hours = 0
    /\ Len(last.result) >= 1
    /\ \E i \in 1 .. Len(ride) :
           /\ ride[i].seats_available > 0
           /\ ride[i].departure_time > last.args.now + 60
           /\ \A k \in 1 .. Len(last.result) : last.result[k].ride # i

\* The candidates of the last call, in fetch order, and their scores
Candidates ==
    Fetch(ride, last.args.now, last.args.now + ClampWindow(last.args.window_hours) * 60)

CandidateSet == { Candidates[k] : k \in 1 .. Len(Candidates) }

ScoreOf(i) == score_ride(SuggestedFor, ride[i], last.args.now)

\* Ride i with score x comes before ride j with score y in the stable
\* descending order (candidates are fetched in the order of their positions)
Before(x, i, y, j) == x > y \/ (x = y /\ i < j)

\* C17: at most 50 suggestions are returned, each a fetched candidate with its
\* score, in non-increasing order of score with equal scores in fetch order,
\* and every candidate left out comes after every returned one in that order.
C17_TopFiftyStableDescending ==
    Suggested =>
        LET res == last.result
            fetched == CandidateSet
            returned == { res[k].ride : k \in 1 .. Len(res) }
        IN  /\ Len(res) = Min(Cardinality(fetched), 50)
            /\ \A k \in 1 .. Len(res) :
                   /\ res[k].ride \in fetched
                   /\ res[k].score = ScoreOf(res[k].ride)
            /\ \A k \in 1 .. Len(res) - 1 :
                   Before(res[k].score, res[k].ride, res[k + 1].score, res[k + 1].ride)
            /\ \A i \in fetched \ returned :
                   Len(res) > 0 /\
                   Before(res[Len(res)].score, res[Len(res)].ride, ScoreOf(i), i)

\* C17 witness: more than 50 candidates of two different scores were fetched,
\* 50 were returned, and a candidate left out has the score of the last
\* returned one.
C17_Witness ==
    /\ Suggested
    /\ Len(Candidates) > 50
    /\ Len(last.result) = 50
    /\ last.result[1].score > last.result[50].score
    /\ \E i \in CandidateSet :
           /\ \A k \in 1 .. 50 : last.result[k].ride # i
           /\ ScoreOf(i) = last.result[50].score

\* The ride of the scoring scenario, for the soldier of Haifa and Tel Aviv
ScenarioRide(r) ==
    /\ SuggestedFor.home_area = Haifa
    /\ SuggestedFor.base_name = TelAviv
    /\ r.from_area = NorthHaifa
    /\ r.to_area = SouthTelAviv
    /\ r.departure_time = last.args.now + 60
    /\ r.seats_available = 4
    /\ r.price_per_seat = 0

\* C18 (as claimed): the ride of the scenario scores at least 21.
C18_ScenarioAtLeast21 ==
    Suggested =>
        \A k \in 1 .. Len(last.result) :
            ScenarioRide(ride[last.result[k].ride]) => last.result[k].score >= 2100

\* C18 (amended): the ride of the scenario scores exactly 20 = 5 + 5 + 5 + 2 + 3;
\* the time term is 6 - 1 = 5 one hour before departure.
C18_ScenarioScores20 ==
    Suggested =>
        \A k \in 1 .. Len(last.result) :
            ScenarioRide(ride[last.result[k].ride]) => last.result[k].score = 2000

\* C18 witness: the ride of the scenario was suggested.
C18_Witness ==
    /\ Suggested
    /\ \E k \in 1 .. Len(last.result) : ScenarioRide(ride[last.result[k].ride])

====
